---- MODULE Spec2Model ----
(***************************************************************************)
(* The toil merge-sort demonstration (src/toil/test/sort/sort.py): the     *)
(* job bodies setup, down, up and cleanup, the helpers sort, merge,        *)
(* copySubRangeOfFile and getMidPoint, its main, the file store the       *)
(* bodies write to and the scheduler that orders children and follow-ons;  *)
(* and the option parsing of src/toil/utils/toilLaunchCluster.py.          *)
(*                                                                         *)
(* A file is a sequence of bytes.  Byte 0 is the line terminator, 1 and 2  *)
(* are two letters ('a' < 'b'); the terminator sorts before every letter,  *)
(* as '\n' does before every printable character.  A file offset is        *)
(* 0-based, as in the code; sequence indices are 1-based.                  *)
(***************************************************************************)
EXTENDS Integers, Sequences, FiniteSets, Bags, TLC

VARIABLES
    dst,      \* content of the file at options.fileToSort (input and destination)
    orig,     \* content of that file when the run started
    N,        \* the threshold int(options.N)
    store,    \* the file store: handle -> [content, st, ndel]
    jobs,     \* the job tree: job id -> job record
    crashes,  \* number of job bodies that crashed and were re-run
    call,     \* the last direct call of a helper function, with its result
    main      \* sort.py's main(): its position and the --fileToSort it was given

vars == <<dst, orig, N, store, jobs, crashes, call, main>>

----------------------------------------------------------------------------
(* Bounds *)

MaxLines == 3
MaxN == 4
MaxLen == 4
MaxCrashes == 1
MaxLongLines == 1
MaxNodeTypes == 2


----------------------------------------------------------------------------
(* Bytes, lines and files *)

NL == 0
Letters == {1, 2}
Bytes == {NL} \cup Letters

Min(S) == CHOOSE x \in S : \A y \in S : x <= y

RECURSIVE Flatten(_)
Flatten(ls) == IF ls = <<>> THEN <<>> ELSE Head(ls) \o Flatten(Tail(ls))

(* fileHandle.seek(pos); fileHandle.readline(): the bytes from pos up to and
   including the next terminator, or up to the end of the file. *)
readlineLen(f, pos) ==
    LET nls == {i \in (pos + 1)..Len(f) : f[i] = NL}
    IN  IF pos >= Len(f) THEN 0
        ELSE IF nls = {} THEN Len(f) - pos
        ELSE Min(nls) - pos

readline(f, pos) == SubSeq(f, pos + 1, pos + readlineLen(f, pos))

RECURSIVE readlinesFrom(_, _)
readlinesFrom(f, pos) ==
    IF pos >= Len(f) THEN <<>>
    ELSE <<readline(f, pos)>> \o readlinesFrom(f, pos + readlineLen(f, pos))

readlines(f) == readlinesFrom(f, 0)

(* A sort of MaxLines + 1 lines that all fit in N runs 3 * (MaxLines + 1)
   jobs (setup, cleanup, 2 * MaxLines + 1 down and MaxLines up); a down job
   spawns no job beyond that number. *)
JobCap == 3 * (MaxLines + 1)

(* Python's str <= on two lines: byte-wise, a proper prefix first. *)
LineLeq(x, y) ==
    LET m == IF Len(x) <= Len(y) THEN Len(x) ELSE Len(y)
        d == {i \in 1..m : x[i] # y[i]}
    IN  IF d = {} THEN Len(x) <= Len(y) ELSE x[Min(d)] < y[Min(d)]

IsSorted(ls) == \A i \in 1..(Len(ls) - 1) : LineLeq(ls[i], ls[i + 1])

RECURSIVE SeqToBag(_)
SeqToBag(ls) ==
    IF ls = <<>> THEN EmptyBag ELSE SetToBag({Head(ls)}) (+) SeqToBag(Tail(ls))

----------------------------------------------------------------------------
(* sort(file) *)

RECURSIVE InsertLine(_, _)
InsertLine(l, ls) ==
    IF ls = <<>> THEN <<l>>
    ELSE IF LineLeq(l, Head(ls)) THEN <<l>> \o ls
    ELSE <<Head(ls)>> \o InsertLine(l, Tail(ls))

RECURSIVE linesSort(_)
linesSort(ls) == IF ls = <<>> THEN <<>> ELSE InsertLine(Head(ls), linesSort(Tail(ls)))

(* readlines, lines.sort(), then every line written back in order.  (Each of
   the three steps is bound by a quantifier, so that it is evaluated once.) *)
sort(f) ==
    CHOOSE out \in {Flatten(sorted) : sorted \in {linesSort(lines) :
                                                   lines \in {readlines(f)}}} : TRUE

----------------------------------------------------------------------------
(* merge(fileHandle1, fileHandle2, outputFileHandle) *)

RECURSIVE mergeLoop(_, _, _)
mergeLoop(l1, l2, out) ==
    IF l1 = <<>> THEN out \o Flatten(l2)
    ELSE IF l2 # <<>> /\ LineLeq(Head(l2), Head(l1))
         THEN mergeLoop(l1, Tail(l2), out \o Head(l2))
         ELSE mergeLoop(Tail(l1), l2, out \o Head(l1))

merge(f1, f2) ==
    CHOOSE out \in {mergeLoop(l1, l2, <<>>) : l1 \in {readlines(f1)},
                                              l2 \in {readlines(f2)}} : TRUE

(* the writes of merge taking a line of file 1 before an equal line of
   file 2 *)
RECURSIVE mergeWrites_Input1First(_, _, _)
mergeWrites_Input1First(l1, l2, ws) ==
    IF l1 = <<>> THEN ws \o [i \in 1..Len(l2) |-> [src |-> 2, line |-> l2[i]]]
    ELSE IF l2 # <<>> /\ ~LineLeq(Head(l1), Head(l2))
         THEN mergeWrites_Input1First(l1, Tail(l2),
                                      Append(ws, [src |-> 2, line |-> Head(l2)]))
         ELSE mergeWrites_Input1First(Tail(l1), l2,
                                      Append(ws, [src |-> 1, line |-> Head(l1)]))

(* The calls of outputFileHandle.write that merge makes, lines 120-128, in
   order: each with the line written and the input file it was read from. *)
RECURSIVE mergeWrites(_, _, _)
mergeWrites(l1, l2, ws) ==
    IF l1 = <<>> THEN ws \o [i \in 1..Len(l2) |-> [src |-> 2, line |-> l2[i]]]
    ELSE IF l2 # <<>> /\ LineLeq(Head(l2), Head(l1))
         THEN mergeWrites(l1, Tail(l2), Append(ws, [src |-> 2, line |-> Head(l2)]))
         ELSE mergeWrites(Tail(l1), l2, Append(ws, [src |-> 1, line |-> Head(l1)]))

----------------------------------------------------------------------------
(* copySubRangeOfFile and getMidPoint; AssertionError is the result Failed. *)

Failed == -1

(* copySubRangeOfFile reading one byte less than the range *)
copySubRangeOfFile_ShortRead(f, fileStart, fileEnd) ==
    LET last == IF fileEnd <= Len(f) THEN fileEnd ELSE Len(f)
        data == SubSeq(f, fileStart + 1, last - 1)
    IN  [ok |-> Len(data) = fileEnd - fileStart, data |-> data]

copySubRangeOfFile(f, fileStart, fileEnd) ==
    LET last == IF fileEnd <= Len(f) THEN fileEnd ELSE Len(f)
        data == SubSeq(f, fileStart + 1, last)
    IN  [ok |-> Len(data) = fileEnd - fileStart, data |-> data]

(* getMidPoint returning the offset after the terminator it found *)
getMidPoint_PastTerminator(f, fileStart, fileEnd) ==
    LET midPoint == (fileStart + fileEnd) \div 2
        line == readline(f, midPoint)
        first == readline(f, fileStart)
    IN  IF midPoint < fileStart \/ Len(line) < 1 THEN Failed
        ELSE IF Len(line) + midPoint < fileEnd THEN midPoint + Len(line)
        ELSE IF Len(first) < 1 \/ Len(first) + fileStart > fileEnd THEN Failed
        ELSE Len(first) + fileStart

(* getMidPoint returning the last offset of the range *)
getMidPoint_EndOfRange(f, fileStart, fileEnd) ==
    LET midPoint == (fileStart + fileEnd) \div 2
        line == readline(f, midPoint)
        first == readline(f, fileStart)
    IN  IF midPoint < fileStart \/ Len(line) < 1 THEN Failed
        ELSE IF Len(line) + midPoint < fileEnd THEN fileEnd - 1
        ELSE IF Len(first) < 1 \/ Len(first) + fileStart > fileEnd THEN Failed
        ELSE Len(first) + fileStart - 1

getMidPoint(f, fileStart, fileEnd) ==
    LET midPoint == (fileStart + fileEnd) \div 2
        line == readline(f, midPoint)
        first == readline(f, fileStart)
    IN  IF midPoint < fileStart \/ Len(line) < 1 THEN Failed
        ELSE IF Len(line) + midPoint < fileEnd THEN midPoint + Len(line) - 1
        ELSE IF Len(first) < 1 \/ Len(first) + fileStart > fileEnd THEN Failed
        ELSE Len(first) + fileStart - 1

(* down copying the second half from midPoint instead of midPoint + 1 *)
downHalves_Overlap(inputFile) ==
    LET length == Len(inputFile)
        midPoint == getMidPoint(inputFile, 0, length)
        c1 == copySubRangeOfFile(inputFile, 0, midPoint + 1)
        c2 == copySubRangeOfFile(inputFile, midPoint, length)
    IN  IF midPoint = Failed THEN [ok |-> FALSE, t1 |-> <<>>, t2 |-> <<>>]
        ELSE [ok |-> c1.ok /\ c2.ok, t1 |-> c1.data, t2 |-> c2.data]

(* What down does with a file longer than N: the split point and the two
   halves it copies into local temporary files. *)
downHalves(inputFile) ==
    LET length == Len(inputFile)
        midPoint == getMidPoint(inputFile, 0, length)
        c1 == copySubRangeOfFile(inputFile, 0, midPoint + 1)
        c2 == copySubRangeOfFile(inputFile, midPoint + 1, length)
    IN  IF midPoint = Failed THEN [ok |-> FALSE, t1 |-> <<>>, t2 |-> <<>>]
        ELSE [ok |-> c1.ok /\ c2.ok, t1 |-> c1.data, t2 |-> c2.data]

----------------------------------------------------------------------------
(* The file store.  Every write returns a fresh handle; a handle is named by
   the job that wrote it, the statement of that job's body and the run of
   the body, which differ for any two writes. *)

NoHandle == <<"none", 0, "none", 0>>

HandleOf(j, slot) == <<j[1], j[2], slot, jobs[j].run>>

Exists(h) == h \in DOMAIN store /\ store[h].st # "deleted"

(* writeGlobalFile(localFile): a complete blob under a fresh handle *)
writeGlobalFile(st, h, content) ==
    st @@ (h :> [content |-> content, st |-> "present", ndel |-> 0])

(* writeGlobalFileStream(): a fresh handle whose stream is still open *)
writeGlobalFileStream(st, h) ==
    st @@ (h :> [content |-> <<>>, st |-> "open", ndel |-> 0])

(* what is written to an open stream is appended to the blob *)
streamWrite(st, h, data) ==
    [st EXCEPT ![h].content = @ \o data]

(* leaving the with block closes the stream: the blob is complete *)
streamClose(st, h) == [st EXCEPT ![h].st = "present"]

deleteGlobalFile(st, h) ==
    IF h \in DOMAIN st
    THEN [st EXCEPT ![h].st = "deleted", ![h].ndel = @ + 1]
    ELSE st

----------------------------------------------------------------------------
(* The job tree and the scheduler.  Down jobs are numbered as the nodes of a
   binary tree: the root is 1, the children of k are 2k and 2k+1, and the
   follow-on of down k is up k. *)

SetupJob == <<"setup", 0>>
CleanupJob == <<"cleanup", 0>>
DownJob(k) == <<"down", k>>
UpJob(k) == <<"up", k>>
NoJob == <<"none", 0>>

(* The memory a job is requested with is named by the expression it comes
   from: the module's sortMemory (line 27, also the default of every job
   function's memory parameter), or the command line's options.sortMemory or
   options.mergeMemory. *)
sortMemory == "sortMemory"
optionsSortMemory == "options.sortMemory"
optionsMergeMemory == "options.mergeMemory"

(* Job.wrapJobFn / addChildJobFn / addFollowOnJobFn: a job that has not run.
   argH is a handle passed directly, argJ1 and argJ2 the jobs whose rv() is
   passed; h1, h2 and local are the body's local variables; rvH is the handle
   the body returned, rvJ the job whose rv() it returned; memory is the
   memory the job was requested with. *)
NewJob(parent, followOn, argH, argJ1, argJ2, memory) ==
    [pc |-> "wait", parent |-> parent, followOn |-> followOn, memory |-> memory,
     argH |-> argH, argJ1 |-> argJ1, argJ2 |-> argJ2,
     h1 |-> NoHandle, h2 |-> NoHandle, local |-> <<>>,
     rvH |-> NoHandle, rvJ |-> NoJob, run |-> 0]

Successors(j) == {c \in DOMAIN jobs : jobs[c].parent = j}

RECURSIVE SubtreeDone(_)
SubtreeDone(j) ==
    /\ jobs[j].pc = "done"
    /\ \A c \in Successors(j) : SubtreeDone(c)

(* A job runs once the job that spawned it has returned; a follow-on runs
   only when, in addition, every child of that job and all their successors
   have completed. *)
Runnable(j) ==
    /\ j \in DOMAIN jobs
    /\ jobs[j].pc = "wait"
    /\ IF jobs[j].parent = NoJob THEN TRUE
       ELSE /\ jobs[jobs[j].parent].pc = "done"
            /\ jobs[j].followOn =>
                  \A c \in Successors(jobs[j].parent) :
                      jobs[c].followOn \/ SubtreeDone(c)

(* job.rv(): the handle a job returned, through the follow-ons whose rv() it
   returned; NoHandle while that is not yet known. *)
RECURSIVE Rv(_)
Rv(j) ==
    IF j \notin DOMAIN jobs THEN NoHandle
    ELSE IF jobs[j].rvJ # NoJob THEN Rv(jobs[j].rvJ)
    ELSE jobs[j].rvH

Running(j) == j \in DOMAIN jobs /\ jobs[j].pc \notin {"wait", "done", "failed"}

----------------------------------------------------------------------------
(* The job bodies.  A body that raises leaves its job "failed". *)

Fail(j) == jobs' = [jobs EXCEPT ![j].pc = "failed"]

(* setup, line 39: the input file is written to the file store *)
SetupWrite ==
    /\ Runnable(SetupJob)
    /\ LET h == HandleOf(SetupJob, "in")
       IN  /\ store' = writeGlobalFile(store, h, dst)
           /\ jobs' = [jobs EXCEPT ![SetupJob].pc = "wrote", ![SetupJob].h1 = h]
    /\ UNCHANGED <<dst, orig, N, crashes, call, main>>

(* setup, lines 41-43: the root down job is the child, cleanup the follow-on
   that is given the child's rv() *)
SetupSpawn ==
    /\ SetupJob \in DOMAIN jobs
    /\ jobs[SetupJob].pc = "wrote"
    /\ jobs' = [jobs EXCEPT ![SetupJob].pc = "done"]
               @@ (DownJob(1) :> NewJob(SetupJob, FALSE, jobs[SetupJob].h1, NoJob, NoJob, sortMemory))
               @@ (CleanupJob :> NewJob(SetupJob, TRUE, NoHandle, DownJob(1), NoJob, sortMemory))
    /\ UNCHANGED <<dst, orig, N, store, crashes, call, main>>

(* down splitting a file of exactly N bytes as well *)
DownStart_SplitAtN(k) ==
    LET j == DownJob(k)
    IN
    /\ Runnable(j)
    /\ IF ~Exists(jobs[j].argH)
       THEN Fail(j) /\ UNCHANGED store
       ELSE LET inputFile == store[jobs[j].argH].content
                halves == downHalves(inputFile)
            IN  IF Len(inputFile) >= N
                THEN IF ~halves.ok
                     THEN Fail(j) /\ UNCHANGED store
                     ELSE /\ store' = writeGlobalFile(store, HandleOf(j, "t1"), halves.t1)
                          /\ jobs' = [jobs EXCEPT ![j].pc = "split1",
                                                  ![j].local = inputFile,
                                                  ![j].h1 = HandleOf(j, "t1")]
                ELSE /\ store' = writeGlobalFile(store, HandleOf(j, "out"), sort(inputFile))
                     /\ jobs' = [jobs EXCEPT ![j].pc = "sorted",
                                             ![j].local = inputFile,
                                             ![j].h1 = HandleOf(j, "out")]
    /\ UNCHANGED <<dst, orig, N, crashes, call, main>>

(* down, lines 53-66 and the write of t1, or lines 78-80 up to the write of
   the sorted copy *)
DownStart(k) ==
    LET j == DownJob(k)
    IN
    /\ Runnable(j)
    /\ IF ~Exists(jobs[j].argH)
       THEN Fail(j) /\ UNCHANGED store
       ELSE LET inputFile == store[jobs[j].argH].content
                halves == downHalves(inputFile)
            IN  IF Len(inputFile) > N
                THEN IF ~halves.ok
                     THEN Fail(j) /\ UNCHANGED store
                     ELSE /\ store' = writeGlobalFile(store, HandleOf(j, "t1"), halves.t1)
                          /\ jobs' = [jobs EXCEPT ![j].pc = "split1",
                                                  ![j].local = inputFile,
                                                  ![j].h1 = HandleOf(j, "t1")]
                ELSE /\ store' = writeGlobalFile(store, HandleOf(j, "out"), sort(inputFile))
                     /\ jobs' = [jobs EXCEPT ![j].pc = "sorted",
                                             ![j].local = inputFile,
                                             ![j].h1 = HandleOf(j, "out")]
    /\ UNCHANGED <<dst, orig, N, crashes, call, main>>

(* down, line 71: the write of t2 *)
DownWrite2(k) ==
    LET j == DownJob(k)
    IN
    /\ j \in DOMAIN jobs
    /\ jobs[j].pc = "split1"
    /\ store' = writeGlobalFile(store, HandleOf(j, "t2"), downHalves(jobs[j].local).t2)
    /\ jobs' = [jobs EXCEPT ![j].pc = "split2", ![j].h2 = HandleOf(j, "t2")]
    /\ UNCHANGED <<dst, orig, N, crashes, call, main>>

(* down, lines 68-72: two down children, one per half, and the up follow-on
   that is given their rv(); the follow-on's rv() is returned.  The first
   child is requested with memory=options.sortMemory (line 70), the second
   with memory=sortMemory (line 72), the follow-on with
   memory=options.mergeMemory (line 72). *)
DownSpawn(k) ==
    LET j == DownJob(k)
    IN
    /\ j \in DOMAIN jobs
    /\ jobs[j].pc = "split2"
    /\ Cardinality(DOMAIN jobs) + 3 <= JobCap
    /\ jobs' = [jobs EXCEPT ![j].pc = "done", ![j].rvJ = UpJob(k)]
               @@ (DownJob(2 * k) :>
                      NewJob(j, FALSE, jobs[j].h1, NoJob, NoJob, optionsSortMemory))
               @@ (DownJob(2 * k + 1) :>
                      NewJob(j, FALSE, jobs[j].h2, NoJob, NoJob, sortMemory))
               @@ (UpJob(k) :>
                      NewJob(j, TRUE, NoHandle, DownJob(2 * k), DownJob(2 * k + 1),
                             optionsMergeMemory))
    /\ UNCHANGED <<dst, orig, N, store, crashes, call, main>>

(* down, line 80: the handle of the sorted copy is returned *)
DownReturn(k) ==
    LET j == DownJob(k)
    IN
    /\ j \in DOMAIN jobs
    /\ jobs[j].pc = "sorted"
    /\ jobs' = [jobs EXCEPT ![j].pc = "done", ![j].rvH = jobs[j].h1]
    /\ UNCHANGED <<dst, orig, N, store, crashes, call, main>>

UpIn1(j) == Rv(jobs[j].argJ1)
UpIn2(j) == Rv(jobs[j].argJ2)

(* up, lines 85-87: the output stream, then the two input streams *)
UpOpen(k) ==
    LET j == UpJob(k)
        out == HandleOf(j, "out")
    IN
    /\ Runnable(j)
    /\ store' = writeGlobalFileStream(store, out)
    /\ IF Exists(UpIn1(j)) /\ Exists(UpIn2(j))
       THEN jobs' = [jobs EXCEPT ![j].pc = "opened", ![j].h1 = out]
       ELSE jobs' = [jobs EXCEPT ![j].pc = "failed", ![j].h1 = out]
    /\ UNCHANGED <<dst, orig, N, crashes, call, main>>

(* up, line 88 *)
UpMerge(k) ==
    LET j == UpJob(k)
    IN
    /\ j \in DOMAIN jobs
    /\ jobs[j].pc = "opened"
    /\ store' = streamWrite(store, jobs[j].h1,
                            merge(store[UpIn1(j)].content, store[UpIn2(j)].content))
    /\ jobs' = [jobs EXCEPT ![j].pc = "merged"]
    /\ UNCHANGED <<dst, orig, N, crashes, call, main>>

(* up deleting its own output instead of its first input *)
UpDelete1_OwnOutput(k) ==
    LET j == UpJob(k)
    IN
    /\ j \in DOMAIN jobs
    /\ jobs[j].pc = "merged"
    /\ store' = deleteGlobalFile(store, jobs[j].h1)
    /\ jobs' = [jobs EXCEPT ![j].pc = "deleted1"]
    /\ UNCHANGED <<dst, orig, N, crashes, call, main>>

(* up, line 92, inside the with block of the output stream *)
UpDelete1(k) ==
    LET j == UpJob(k)
    IN
    /\ j \in DOMAIN jobs
    /\ jobs[j].pc = "merged"
    /\ store' = deleteGlobalFile(store, UpIn1(j))
    /\ jobs' = [jobs EXCEPT ![j].pc = "deleted1"]
    /\ UNCHANGED <<dst, orig, N, crashes, call, main>>

(* up deleting its first input a second time *)
UpDelete2_FirstInputAgain(k) ==
    LET j == UpJob(k)
    IN
    /\ j \in DOMAIN jobs
    /\ jobs[j].pc = "deleted1"
    /\ store' = deleteGlobalFile(store, UpIn1(j))
    /\ jobs' = [jobs EXCEPT ![j].pc = "deleted2"]
    /\ UNCHANGED <<dst, orig, N, crashes, call, main>>

(* up, line 93, inside the with block of the output stream *)
UpDelete2(k) ==
    LET j == UpJob(k)
    IN
    /\ j \in DOMAIN jobs
    /\ jobs[j].pc = "deleted1"
    /\ store' = deleteGlobalFile(store, UpIn2(j))
    /\ jobs' = [jobs EXCEPT ![j].pc = "deleted2"]
    /\ UNCHANGED <<dst, orig, N, crashes, call, main>>

(* up, line 94: the return leaves the with block, which closes the output
   stream *)
UpReturn(k) ==
    LET j == UpJob(k)
    IN
    /\ j \in DOMAIN jobs
    /\ jobs[j].pc = "deleted2"
    /\ store' = streamClose(store, jobs[j].h1)
    /\ jobs' = [jobs EXCEPT ![j].pc = "done", ![j].rvH = jobs[j].h1]
    /\ UNCHANGED <<dst, orig, N, crashes, call, main>>

(* cleanup, line 99: the result is read into a local file *)
CleanupRead ==
    LET j == CleanupJob
        h == Rv(jobs[j].argJ1)
    IN
    /\ Runnable(j)
    /\ IF Exists(h)
       THEN jobs' = [jobs EXCEPT ![j].pc = "read", ![j].local = store[h].content]
       ELSE Fail(j)
    /\ UNCHANGED <<dst, orig, N, store, crashes, call, main>>

(* cleanup, line 100: shutil.copyfile opens the destination for writing,
   which truncates it ... *)
CleanupOpen ==
    /\ CleanupJob \in DOMAIN jobs
    /\ jobs[CleanupJob].pc = "read"
    /\ dst' = <<>>
    /\ jobs' = [jobs EXCEPT ![CleanupJob].pc = "copying"]
    /\ UNCHANGED <<orig, N, store, crashes, call, main>>

(* ... and then copies the local file into it *)
CleanupCopy ==
    /\ CleanupJob \in DOMAIN jobs
    /\ jobs[CleanupJob].pc = "copying"
    /\ dst' = jobs[CleanupJob].local
    /\ jobs' = [jobs EXCEPT ![CleanupJob].pc = "done"]
    /\ UNCHANGED <<orig, N, store, crashes, call, main>>

(* A job body crashes part way; the scheduler runs it again from its start
   with the same arguments.  What the body wrote to or deleted from the file
   store, and what it wrote to the destination, stays. *)
Crash(j) ==
    /\ Running(j)
    /\ crashes < MaxCrashes
    /\ crashes' = crashes + 1
    /\ jobs' = [jobs EXCEPT ![j].pc = "wait", ![j].h1 = NoHandle, ![j].h2 = NoHandle,
                            ![j].local = <<>>, ![j].run = @ + 1]
    /\ UNCHANGED <<dst, orig, N, store, call, main>>

----------------------------------------------------------------------------
(* Inputs *)

LinePool == {<<NL>>} \cup {<<c, NL>> : c \in Letters}
Tails == {<<>>} \cup {<<c>> : c \in Letters}

LineSeqs(n) == UNION {[1..m -> LinePool] : m \in 0..n}

(* files of up to MaxLines terminated lines and an optional unterminated one *)
InputFiles == {Flatten(ls) \o t : ls \in LineSeqs(MaxLines), t \in Tails}

ByteFiles(n) == UNION {[1..m -> Bytes] : m \in 0..n}

----------------------------------------------------------------------------
(* toilLaunchCluster.main (src/toil/utils/toilLaunchCluster.py), from the
   parsed options to the call of launchCluster.  A string is a sequence of
   characters; Python's None and a list are told apart by isNone. *)

None == [isNone |-> TRUE, items |-> <<>>]
List(items) == [isNone |-> FALSE, items |-> items]

(* str.split(): the words between runs of whitespace *)
RECURSIVE strSplit(_, _, _)
strSplit(str, word, words) ==
    IF str = <<>> THEN (IF word = <<>> THEN words ELSE Append(words, word))
    ELSE IF Head(str) = " "
         THEN strSplit(Tail(str), <<>>, IF word = <<>> THEN words ELSE Append(words, word))
         ELSE strSplit(Tail(str), Append(word, Head(str)), words)

(* str.split(':', 1): the parts before and after the first colon, or the
   string alone when it has none *)
splitColon(str) ==
    LET colons == {i \in 1..Len(str) : str[i] = ":"}
    IN  IF colons = {} THEN <<str>>
        ELSE <<SubSeq(str, 1, Min(colons) - 1), SubSeq(str, Min(colons) + 1, Len(str))>>

(* lines 98-101, the loop over config.preemptableNodeTypes.split():
   list.append on preemptableNodeTypes, then spotBids.append, which raises
   AttributeError when spotBids is None and IndexError when the entry has no
   colon *)
RECURSIVE parseNodeTypes(_, _)
parseNodeTypes(words, r) ==
    IF words = <<>> THEN r
    ELSE LET parsedBid == splitColon(Head(words))
             types == Append(r.preemptableNodeTypes, parsedBid[1])
         IN  IF Len(parsedBid) < 2
             THEN [r EXCEPT !.status = "IndexError", !.preemptableNodeTypes = types]
             ELSE IF r.spotBids.isNone
             THEN [r EXCEPT !.status = "AttributeError", !.preemptableNodeTypes = types]
             ELSE parseNodeTypes(Tail(words),
                      [r EXCEPT !.preemptableNodeTypes = types,
                                !.spotBids = List(Append(r.spotBids.items, parsedBid[2]))])

NoLaunch == [status |-> "none", arg |-> <<>>, preemptableNodeTypes |-> <<>>,
             spotBids |-> None]

(* lines 79-121 with the aws provisioner: spotBids = None and
   preemptableNodeTypes = [] (lines 79-81), the loop, and launchCluster with
   spotBids=spotBids when nothing was raised *)
launchClusterMain(arg) ==
    LET r == parseNodeTypes(strSplit(arg, <<>>, <<>>),
                            [NoLaunch EXCEPT !.status = "parsing", !.arg = arg])
    IN  IF r.status = "parsing" THEN [r EXCEPT !.status = "launchCluster"] ELSE r

(* 'type:bid' entries, and the values of --preemptableNodeTypes made of up to
   MaxNodeTypes of them separated by a blank *)
NodeTypeEntries == {<<t, ":", b>> : t \in {"c", "m"}, b \in {"1", "2"}}

RECURSIVE JoinBlank(_)
JoinBlank(es) ==
    IF es = <<>> THEN <<>>
    ELSE IF Len(es) = 1 THEN Head(es)
    ELSE Head(es) \o <<" ">> \o JoinBlank(Tail(es))

PreemptableNodeTypeArgs ==
    {JoinBlank(es) : es \in UNION {[1..m -> NodeTypeEntries] : m \in 0..MaxNodeTypes}}

NoCall == [op |-> "none", f1 |-> <<>>, f2 |-> <<>>, s |-> 0, e |-> 0,
           out |-> <<>>, i |-> 0, writes |-> <<>>, launch |-> NoLaunch]

(* the tree nodes that have a job *)
Nodes == {j[2] : j \in DOMAIN jobs}

LongLines(f, n) == {i \in 1..Len(readlines(f)) : Len(readlines(f)[i]) > n}

LinesFit(f, n) == LongLines(f, n) = {}

(* main refusing only a negative N *)
mainChecks_ZeroAllowed(fileToSort, n) ==
    IF fileToSort = "none" THEN "raised"
    ELSE IF fileToSort = "missing" THEN "raised"
    ELSE IF n < 0 THEN "raised"
    ELSE "started"

(* main, lines 183-190: the three checks made before the workflow starts;
   "raised" is the RuntimeError, "started" the call of startToil.
   fileToSort is "none" when --fileToSort was not given, "missing" when it
   names no existing file, "file" otherwise. *)
mainChecks(fileToSort, n) ==
    IF fileToSort = "none" THEN "raised"
    ELSE IF fileToSort = "missing" THEN "raised"
    ELSE IF n <= 0 THEN "raised"
    ELSE "started"

(* main, lines 193-194: the root job is setup, requested with the module's
   sortMemory *)
RootJobs == (SetupJob :> NewJob(NoJob, FALSE, NoHandle, NoJob, NoJob, sortMemory))

(* the workflow as main starts it: N > 0 and the file exists *)
Init ==
    /\ orig \in InputFiles
    /\ dst = orig
    /\ N \in 1..MaxN
    /\ Cardinality(LongLines(orig, N)) <= MaxLongLines
    /\ store = <<>>
    /\ jobs = RootJobs
    /\ crashes = 0
    /\ call = NoCall
    /\ main = [pc |-> "started", fileToSort |-> "file"]

Next ==
    \/ SetupWrite
    \/ SetupSpawn
    \/ \E k \in Nodes : DownStart(k)
    \/ \E k \in Nodes : DownWrite2(k)
    \/ \E k \in Nodes : DownSpawn(k)
    \/ \E k \in Nodes : DownReturn(k)
    \/ \E k \in Nodes : UpOpen(k)
    \/ \E k \in Nodes : UpMerge(k)
    \/ \E k \in Nodes : UpDelete1(k)
    \/ \E k \in Nodes : UpDelete2(k)
    \/ \E k \in Nodes : UpReturn(k)
    \/ CleanupRead
    \/ CleanupOpen
    \/ CleanupCopy

Spec == Init /\ [][Next]_vars


(* The leader runs a job that is ready to run, and a job body that has
   started runs to its end: as long as a step is possible, one is taken. *)
SpecFair == Init /\ [][Next]_vars /\ WF_vars(Next)

(* Runs in which a job body may crash and be re-run; the input meets the
   documented precondition that every line is at most N bytes. *)
InitCrash == Init /\ LinesFit(orig, N)

NextCrash ==
    \/ Next
    \/ \E j \in DOMAIN jobs : Crash(j)

SpecCrash == InitCrash /\ [][NextCrash]_vars

(* Runs from the start of main, on any command line: N may be zero or
   negative, and the file to sort may be missing or not given (the file then
   has no content). *)
InitMain ==
    /\ main \in [pc : {"start"}, fileToSort : {"none", "missing", "file"}]
    /\ orig \in IF main.fileToSort = "file" THEN InputFiles ELSE {<<>>}
    /\ dst = orig
    /\ N \in -1..MaxN
    /\ Cardinality(LongLines(orig, N)) <= MaxLongLines
    /\ store = <<>>
    /\ jobs = <<>>
    /\ crashes = 0
    /\ call = NoCall

(* main, lines 183-194 *)
Main ==
    /\ main.pc = "start"
    /\ main' = [main EXCEPT !.pc = mainChecks(main.fileToSort, N)]
    /\ jobs' = IF mainChecks(main.fileToSort, N) = "started" THEN RootJobs ELSE jobs
    /\ UNCHANGED <<dst, orig, N, store, crashes, call>>

NextMain ==
    \/ Main
    \/ Next

SpecMain == InitMain /\ [][NextMain]_vars

----------------------------------------------------------------------------
(* Direct calls of the helper functions on arbitrary arguments *)

InitFn ==
    /\ orig = <<>>
    /\ dst = <<>>
    /\ N = 1
    /\ store = <<>>
    /\ jobs = <<>>
    /\ crashes = 0
    /\ call = NoCall
    /\ main = [pc |-> "none", fileToSort |-> "none"]

(* merge on two files whose lines are in sorted order *)
CallMerge ==
    /\ call.op = "none"
    /\ \E a \in ByteFiles(MaxLen), b \in ByteFiles(MaxLen) :
          /\ IsSorted(readlines(a))
          /\ IsSorted(readlines(b))
          /\ call' = [NoCall EXCEPT !.op = "merge", !.f1 = a, !.f2 = b,
                                    !.out = merge(a, b),
                                    !.writes = mergeWrites(readlines(a),
                                                           readlines(b), <<>>)]
    /\ UNCHANGED <<dst, orig, N, store, jobs, crashes, main>>

(* getMidPoint on a range [s, e) of a file *)
CallGetMidPoint ==
    /\ call.op = "none"
    /\ \E f \in ByteFiles(MaxLen + 1) :
          \E s \in 0..Len(f), e \in 0..Len(f) :
             /\ s < e
             /\ call' = [NoCall EXCEPT !.op = "getMidPoint", !.f1 = f, !.s = s,
                                       !.e = e, !.i = getMidPoint(f, s, e)]
    /\ UNCHANGED <<dst, orig, N, store, jobs, crashes, main>>

(* sort on a file, in place *)
CallSort ==
    /\ call.op = "none"
    /\ \E f \in ByteFiles(MaxLen + 1) :
          call' = [NoCall EXCEPT !.op = "sort", !.f1 = f, !.out = sort(f)]
    /\ UNCHANGED <<dst, orig, N, store, jobs, crashes, main>>

(* toilLaunchCluster.main with --provisioner aws and a value of
   --preemptableNodeTypes *)
CallLaunchCluster ==
    /\ call.op = "none"
    /\ \E arg \in PreemptableNodeTypeArgs :
          call' = [NoCall EXCEPT !.op = "launchCluster",
                                 !.launch = launchClusterMain(arg)]
    /\ UNCHANGED <<dst, orig, N, store, jobs, crashes, main>>

NextFn ==
    \/ CallMerge
    \/ CallGetMidPoint
    \/ CallSort
    \/ CallLaunchCluster

SpecFn == InitFn /\ [][NextFn]_vars

----------------------------------------------------------------------------
(* Properties *)

LineBag(f) == SeqToBag(readlines(f))

RunDone == CleanupJob \in DOMAIN jobs /\ jobs[CleanupJob].pc = "done"

IsDown(j) == j \in DOMAIN jobs /\ j[1] = "down"
IsUp(j) == j \in DOMAIN jobs /\ j[1] = "up"

(* C1: when every line of the input is at most N bytes, the file cleanup
   leaves at the destination holds the input's lines, each exactly as often
   as in the input, in non-decreasing order, and has the input's length. *)
C1_OutputIsSortedPermutation ==
    (RunDone /\ LinesFit(orig, N)) =>
        /\ IsSorted(readlines(dst))
        /\ LineBag(dst) = LineBag(orig)
        /\ Len(dst) = Len(orig)

(* C2: merge of two files whose lines are sorted writes a file whose lines
   are sorted and are exactly the lines of the two inputs together, also when
   an input is empty or ends with an unterminated line. *)
C2_MergeIsSortedUnion ==
    call.op = "merge" =>
        /\ IsSorted(readlines(call.out))
        /\ LineBag(call.out) = LineBag(call.f1) (+) LineBag(call.f2)

(* a terminated line that starts at a line start and lies inside [s, e) *)
HasCompleteLine(f, s, e) ==
    \E a \in s..(e - 1), b \in s..(e - 1) :
        /\ a <= b
        /\ a = 0 \/ f[a] = NL
        /\ f[b + 1] = NL
        /\ \A c \in a..(b - 1) : f[c + 1] # NL

(* C3: on a range [s, e) that contains a complete line getMidPoint returns
   an offset i with s <= i < e at which the file holds a line terminator. *)
C3_MidPointAtLineBoundary ==
    (call.op = "getMidPoint" /\ HasCompleteLine(call.f1, call.s, call.e)) =>
        /\ call.i # Failed
        /\ call.s <= call.i
        /\ call.i < call.e
        /\ call.f1[call.i + 1] = NL

(* C3 witness: a call on an inner range whose middle line runs to the end of
   the range, so that the first line of the range is taken. *)
C3_Witness ==
    /\ call.op = "getMidPoint"
    /\ HasCompleteLine(call.f1, call.s, call.e)
    /\ call.s > 0
    /\ call.e < Len(call.f1)
    /\ LET m == (call.s + call.e) \div 2
       IN  readlineLen(call.f1, m) + m >= call.e
    /\ call.f1[call.i + 1] = NL

(* C4: once down has written both halves of a file longer than N, the first
   half followed by the second is the file, and the lines of the two halves
   together are the lines of the file. *)
C4_SplitPreservesRange ==
    \A j \in DOMAIN jobs :
        (IsDown(j) /\ jobs[j].h2 # NoHandle) =>
            LET whole == store[jobs[j].argH].content
                t1 == store[jobs[j].h1].content
                t2 == store[jobs[j].h2].content
            IN  /\ Len(whole) > N
                /\ t1 \o t2 = whole
                /\ LineBag(t1) (+) LineBag(t2) = LineBag(whole)

(* C4 witness: a split whose first half holds two lines and whose second
   half ends with an unterminated line. *)
C4_Witness ==
    \E j \in DOMAIN jobs :
        /\ IsDown(j)
        /\ jobs[j].h2 # NoHandle
        /\ LET t1 == store[jobs[j].h1].content
               t2 == store[jobs[j].h2].content
           IN  /\ Len(readlines(t1)) >= 2
               /\ Len(readlines(t2)) >= 2
               /\ t2[Len(t2)] # NL

(* the handles the run starts from and ends with *)
RootHandles == {jobs[SetupJob].h1, Rv(DownJob(1))}

(* C5: when the run has completed, every handle but the root has been
   deleted, and deleted once. *)
C5_HandlesDeletedOnce ==
    RunDone =>
        \A h \in DOMAIN store :
            h \notin RootHandles => store[h].st = "deleted" /\ store[h].ndel = 1

(* C6: when up has opened its input streams, both children of the node and
   all their successors have completed, and each input handle holds the
   lines of its child's range in sorted order. *)
C6_UpReadsSortedChildren ==
    \A j \in DOMAIN jobs :
        (IsUp(j) /\ jobs[j].pc = "opened") =>
            \A c \in {jobs[j].argJ1, jobs[j].argJ2} :
                /\ SubtreeDone(c)
                /\ Exists(Rv(c))
                /\ store[Rv(c)].st = "present"
                /\ IsSorted(readlines(store[Rv(c)].content))
                /\ LineBag(store[Rv(c)].content) = LineBag(store[jobs[c].argH].content)

(* C7: while the output handle of an up job is not completely written (its
   stream is open), both input handles exist. *)
C7_InputsKeptUntilOutputComplete ==
    \A j \in DOMAIN jobs :
        (IsUp(j) /\ jobs[j].h1 # NoHandle /\ store[jobs[j].h1].st = "open") =>
            Exists(UpIn1(j)) /\ Exists(UpIn2(j))

(* the content an uninterrupted down job returns for a file *)
RECURSIVE DownResult(_)
DownResult(f) ==
    IF Len(f) > N /\ downHalves(f).ok /\ Len(downHalves(f).t1) < Len(f)
                  /\ Len(downHalves(f).t2) < Len(f)
    THEN merge(DownResult(downHalves(f).t1), DownResult(downHalves(f).t2))
    ELSE sort(f)

(* C8: a job body that crashed and was run again does not fail, and what it
   returns holds what an uninterrupted run returns. *)
C8_RerunCompletesWithSameOutput ==
    \A j \in DOMAIN jobs :
        jobs[j].run > 0 =>
            /\ jobs[j].pc # "failed"
            /\ (jobs[j].pc = "done" /\ IsDown(j) /\ Rv(j) # NoHandle) =>
                  store[Rv(j)].content = DownResult(store[jobs[j].argH].content)
            /\ (jobs[j].pc = "done" /\ j = CleanupJob) => dst = DownResult(orig)

(* C9: as long as cleanup has not completed, the file at the destination is
   the original input. *)
C9_DestinationIntactUntilDone ==
    ~RunDone => dst = orig

(* a file that is one line of more than N bytes *)
OneLongLine(f) == Len(readlines(f)) = 1 /\ Len(f) > N

(* C10: when a line of the input is longer than N the run fails: it does not
   complete, and a down job given a single line longer than N does not
   return having spawned further jobs. *)
C10_LongLineFailsRun ==
    ~LinesFit(orig, N) =>
        /\ ~RunDone
        /\ \A j \in DOMAIN jobs :
              (IsDown(j) /\ Exists(jobs[j].argH)
                         /\ OneLongLine(store[jobs[j].argH].content)) =>
                  jobs[j].pc # "done"

(* C11: when N <= 0, or no file to sort was given, or the file does not
   exist, main raises before the workflow starts: there is no job, nothing
   is written to the file store and the file is as it was. *)
C11_BadOptionsStartNothing ==
    (N <= 0 \/ main.fileToSort # "file") =>
        /\ main.pc \in {"start", "raised"}
        /\ jobs = <<>>
        /\ store = <<>>
        /\ dst = orig

(* C11 witness: main has raised on an existing file because N is 0 *)
C11_Witness ==
    /\ main.pc = "raised"
    /\ main.fileToSort = "file"
    /\ N = 0
    /\ orig # <<>>

(* how often a file holds the line v *)
LineCount(f, v) == Cardinality({i \in 1..Len(readlines(f)) : readlines(f)[i] = v})

(* the lines two files have in common *)
SharedLines(f1, f2) ==
    {readlines(f1)[i] : i \in 1..Len(readlines(f1))}
        \cap {readlines(f2)[i] : i \in 1..Len(readlines(f2))}

(* C12: merge writes every copy of a line that comes from input 2 before any
   copy of the same line that comes from input 1; what it writes is its
   output, and a terminated line held by both inputs is in the output as
   often as in the two inputs together. *)
C12_MergeEqualLinesInput2First ==
    call.op = "merge" =>
        LET ws == call.writes
        IN  /\ Flatten([i \in 1..Len(ws) |-> ws[i].line]) = call.out
            /\ \A p \in 1..Len(ws), q \in 1..Len(ws) :
                  (ws[p].src = 1 /\ ws[q].src = 2 /\ ws[p].line = ws[q].line)
                      => q < p
            /\ \A v \in SharedLines(call.f1, call.f2) :
                  v[Len(v)] = NL =>
                      LineCount(call.out, v)
                          = LineCount(call.f1, v) + LineCount(call.f2, v)

(* C12 witness: a merge in which input 1 holds a line twice that input 2
   holds as well, and input 2 holds a further line *)
C12_Witness ==
    /\ call.op = "merge"
    /\ \E v \in SharedLines(call.f1, call.f2) :
          /\ LineCount(call.f1, v) = 2
          /\ Len(readlines(call.f2)) >= 2
          /\ call.writes[1] = [src |-> 2, line |-> v]
          /\ call.writes[2] = [src |-> 1, line |-> v]

(* C13: sorting a sorted file changes nothing: sort applied to the result of
   sort returns that result, also when the last line of the file has no
   terminator. *)
C13_SortIdempotent ==
    call.op = "sort" => sort(call.out) = call.out

(* the number of jobs of a sort of a file whose lines all fit in N: setup,
   cleanup and, at most, a leaf per line with an up job per split *)
MaxJobsOf(f) == IF readlines(f) = <<>> THEN 3 ELSE 3 * Len(readlines(f))

(* every split so far has two non-empty halves, each shorter than the file *)
SplitsShrink ==
    \A j \in DOMAIN jobs :
        (IsDown(j) /\ jobs[j].h2 # NoHandle) =>
            LET whole == store[jobs[j].argH].content
                t1 == store[jobs[j].h1].content
                t2 == store[jobs[j].h2].content
            IN  /\ 0 < Len(t1) /\ Len(t1) < Len(whole)
                /\ 0 < Len(t2) /\ Len(t2) < Len(whole)

(* C14: when every line of the input, terminator included, is at most N
   bytes, every split has two non-empty halves that are both shorter than
   the file split, the job tree stays within the number of jobs the lines of
   the input allow, and, jobs being run fairly, the run eventually is done:
   cleanup has completed. *)
C14_FittingInputTerminates ==
    /\ [](LinesFit(orig, N) => (SplitsShrink /\ Cardinality(DOMAIN jobs) <= MaxJobsOf(orig)))
    /\ (LinesFit(orig, N) ~> RunDone)

(* C14 witness: a completed run on an input whose lines fit, in which a half
   of a split was split again *)
C14_Witness ==
    /\ LinesFit(orig, N)
    /\ RunDone
    /\ \E j \in DOMAIN jobs :
          IsDown(j) /\ j[2] > 1 /\ jobs[j].h2 # NoHandle

(* C15: a down job that has read its input decides on the length alone.
   With at most N bytes (none included) it writes the sorted input under one
   new handle, which it returns, computes no split point and spawns
   nothing.  With more than N bytes it writes the two halves and, when
   done, has exactly three successors: a down child for each half and one
   up follow-on that is given the rv() of those two children; it returns the
   follow-on's rv(). *)
C15_DownLeafOrSplit ==
    \A j \in DOMAIN jobs :
        (IsDown(j) /\ jobs[j].pc \notin {"wait", "failed"}) =>
            LET inputFile == jobs[j].local
                c1 == DownJob(2 * j[2])
                c2 == DownJob(2 * j[2] + 1)
                u == UpJob(j[2])
            IN  IF Len(inputFile) <= N
                THEN /\ jobs[j].pc \in {"sorted", "done"}
                     /\ Successors(j) = {}
                     /\ jobs[j].h1 = HandleOf(j, "out")
                     /\ jobs[j].h2 = NoHandle
                     /\ store[jobs[j].h1].content = sort(inputFile)
                     /\ jobs[j].rvJ = NoJob
                     /\ jobs[j].rvH = IF jobs[j].pc = "done" THEN jobs[j].h1 ELSE NoHandle
                ELSE /\ jobs[j].pc \in {"split1", "split2", "done"}
                     /\ jobs[j].rvH = NoHandle
                     /\ IF jobs[j].pc # "done"
                        THEN Successors(j) = {} /\ jobs[j].rvJ = NoJob
                        ELSE /\ Successors(j) = {c1, c2, u}
                             /\ ~jobs[c1].followOn /\ ~jobs[c2].followOn
                             /\ jobs[c1].argH = jobs[j].h1
                             /\ jobs[c2].argH = jobs[j].h2
                             /\ store[jobs[j].h1].content = downHalves(inputFile).t1
                             /\ store[jobs[j].h2].content = downHalves(inputFile).t2
                             /\ jobs[u].followOn
                             /\ jobs[u].argJ1 = c1 /\ jobs[u].argJ2 = c2
                             /\ jobs[j].rvJ = u

(* C15 witness: a split whose up job has completed, with a child that was
   given exactly N bytes and sorted them directly *)
C15_Witness ==
    \E j \in DOMAIN jobs :
        /\ IsDown(j)
        /\ jobs[j].pc = "done"
        /\ Len(jobs[j].local) > N
        /\ jobs[UpJob(j[2])].pc = "done"
        /\ \E c \in Successors(j) :
              /\ IsDown(c)
              /\ Len(jobs[c].local) = N
              /\ jobs[c].rvH = HandleOf(c, "out")

(* C16: on a non-empty input no assertion of getMidPoint or
   copySubRangeOfFile fails in a call made by down: no down job has failed,
   and for every down job that has yet to run and whose input is longer than
   N, getMidPoint on the whole file and copySubRangeOfFile on each of the two
   ranges succeed. *)
C16_DownAssertionsHold ==
    orig # <<>> =>
        \A j \in DOMAIN jobs :
            IsDown(j) =>
                /\ jobs[j].pc # "failed"
                /\ (jobs[j].pc = "wait" /\ Exists(jobs[j].argH)
                        /\ Len(store[jobs[j].argH].content) > N) =>
                      LET inputFile == store[jobs[j].argH].content
                          length == Len(inputFile)
                          midPoint == getMidPoint(inputFile, 0, length)
                      IN  /\ midPoint # Failed
                          /\ copySubRangeOfFile(inputFile, 0, midPoint + 1).ok
                          /\ copySubRangeOfFile(inputFile, midPoint + 1, length).ok

(* C16 witness: down has written both halves of a file, of lines that fit in
   N, in which the line at the middle runs to the end of the file, so that
   getMidPoint took the first line *)
C16_Witness ==
    /\ LinesFit(orig, N)
    /\ \E j \in DOMAIN jobs :
          /\ IsDown(j)
          /\ jobs[j].pc = "split2"
          /\ LET f == jobs[j].local
                 m == Len(f) \div 2
             IN  /\ readlineLen(f, m) + m >= Len(f)
                 /\ f[Len(f)] # NL

(* the handles a job has written, and the handles an up job deletes *)
Written(j) == {jobs[j].h1, jobs[j].h2} \ {NoHandle}

(* the writes made so far, each by a job to one of its two local handles *)
Writes ==
    {<<j, 1>> : j \in {i \in DOMAIN jobs : jobs[i].h1 # NoHandle}}
        \cup {<<j, 2>> : j \in {i \in DOMAIN jobs : jobs[i].h2 # NoHandle}}
DeleteTargets(j) == IF IsUp(j) THEN {UpIn1(j), UpIn2(j)} \ {NoHandle} ELSE {}

(* C17: under every interleaving of the jobs, every handle of the file store
   was written by exactly one job (the handles are those the jobs wrote, and
   there are as many handles as writes) and has been deleted at most once; no two
   jobs delete the same handle; no job deletes a handle that another job is
   still writing; and the two children of a node return different handles. *)
C17_HandlesSingleWriterSingleDeleter ==
    /\ DOMAIN store = UNION {Written(j) : j \in DOMAIN jobs}
    /\ Cardinality(DOMAIN store) = Cardinality(Writes)
    /\ \A h \in DOMAIN store : store[h].ndel <= 1
    /\ \A j \in DOMAIN jobs :
          IsUp(j) =>
              /\ \A i \in DOMAIN jobs :
                    (IsUp(i) /\ i # j) => DeleteTargets(i) \cap DeleteTargets(j) = {}
              /\ (UpIn1(j) # NoHandle /\ UpIn2(j) # NoHandle) => UpIn1(j) # UpIn2(j)
              /\ jobs[j].pc \in {"merged", "deleted1"} =>
                    \A h \in DeleteTargets(j) :
                        store[h].st # "open" /\ h \notin Written(j)

(* C17 witness: two up jobs, children of one node, each of which has merged
   and not yet deleted both of its inputs *)
C17_Witness ==
    \E i \in DOMAIN jobs, j \in DOMAIN jobs :
        /\ IsUp(i) /\ IsUp(j)
        /\ i[2] = 2 * (j[2] \div 2) /\ j[2] = i[2] + 1
        /\ jobs[i].pc \in {"merged", "deleted1"}
        /\ jobs[j].pc \in {"merged", "deleted1"}

(* a handle that exists and is completely written *)
Readable(h) == Exists(h) /\ store[h].st = "present"

(* C18: in a run without failures no job reads a deleted handle: the handle
   a down job is about to read, the two handles an up job is about to read
   or is reading, and the handle cleanup is about to read all exist, no job
   has failed, and the handle cleanup is given, the result of the root, is
   not deleted by any up job. *)
C18_ReadsOnExistingHandles ==
    /\ \A j \in DOMAIN jobs :
          /\ jobs[j].pc # "failed"
          /\ (IsDown(j) /\ Runnable(j)) => Readable(jobs[j].argH)
          /\ (IsUp(j) /\ (Runnable(j) \/ jobs[j].pc = "opened")) =>
                Readable(UpIn1(j)) /\ Readable(UpIn2(j))
          /\ (j = CleanupJob /\ Runnable(j)) => Readable(Rv(jobs[j].argJ1))
    /\ (CleanupJob \in DOMAIN jobs /\ Rv(jobs[CleanupJob].argJ1) # NoHandle) =>
          LET h == Rv(jobs[CleanupJob].argJ1)
          IN  /\ store[h].ndel = 0
              /\ \A j \in DOMAIN jobs : h \notin DeleteTargets(j)

(* C18 witness: cleanup has read the result of a root that was split, after
   the root's up job deleted its two inputs *)
C18_Witness ==
    /\ CleanupJob \in DOMAIN jobs
    /\ jobs[CleanupJob].pc = "read"
    /\ UpJob(1) \in DOMAIN jobs
    /\ Rv(DownJob(1)) = jobs[UpJob(1)].h1
    /\ ~Exists(UpIn1(UpJob(1)))
    /\ ~Exists(UpIn2(UpJob(1)))

(* C19: every down job spawned by a split is requested with the command
   line's options.sortMemory and every up job with options.mergeMemory, so
   that the two children of a node are requested with the same memory. *)
C19_MemoryBudgetsPassedThrough ==
    \A j \in DOMAIN jobs :
        /\ (IsDown(j) /\ IsDown(jobs[j].parent)) => jobs[j].memory = optionsSortMemory
        /\ IsUp(j) =>
              /\ jobs[j].memory = optionsMergeMemory
              /\ jobs[jobs[j].argJ1].memory = jobs[jobs[j].argJ2].memory

(* C20: for every value of --preemptableNodeTypes made of 'type:bid'
   entries, toilLaunchCluster.main parses it without an error and reaches
   launchCluster with one spot bid for each listed type, the bid of that
   entry; for the empty value it reaches launchCluster with spotBids None. *)
C20_LaunchClusterGetsSpotBids ==
    call.op = "launchCluster" =>
        LET r == call.launch
            entries == strSplit(r.arg, <<>>, <<>>)
        IN  /\ r.status = "launchCluster"
            /\ IF entries = <<>>
               THEN r.spotBids = None
               ELSE /\ ~r.spotBids.isNone
                    /\ Len(r.spotBids.items) = Len(entries)
                    /\ \A i \in 1..Len(entries) :
                          /\ r.preemptableNodeTypes[i] = splitColon(entries[i])[1]
                          /\ r.spotBids.items[i] = splitColon(entries[i])[2]

====
